---- MODULE Spec2Model ----
(***************************************************************************)
(* Model of URoadMap (Source/Carla/MapGen/RoadMap.cpp): a raster road map  *)
(* with a world-to-pixel mapping, a point query, an area-overlap query, a  *)
(* PNG export and a bulk population interface.                             *)
(*                                                                         *)
(* Floats that hold lengths (world coordinates, box extents, the sampling  *)
(* step) are fixed-point integers counting 1/Scale of a centimetre, so     *)
(* FloorToInt really rounds.  Rotations are yaws that are multiples of 90  *)
(* degrees, for which sines and cosines are exact.  Direction vectors are  *)
(* integer unit vectors.  Only the X and Y components of a location are    *)
(* kept, since the code never reads Location.Z.                            *)
(***************************************************************************)
EXTENDS Integers, Sequences, FiniteSets, TLC

\* ---------------------------------------------------------------- bounds
Scale == 2

MaxDim == 2

MaxCells == 4

\* ---------------------------------------------------------------- inputs
Vec(x, y) == [X |-> x, Y |-> y]

Dir(x, y, z) == [X |-> x, Y |-> y, Z |-> z]

FTransformIdentity == [Yaw |-> 0, Translation |-> Vec(0, 0)]

Dims == 0..MaxDim

Placements ==
  {[PixelsPerCentimeter |-> 1, WorldToMap |-> FTransformIdentity,
    MapOffset |-> Vec(0, 0)],
   [PixelsPerCentimeter |-> 2,
    WorldToMap |-> [Yaw |-> 90, Translation |-> Vec(0, 0)],
    MapOffset |-> Vec(-1, -1)]}

Coords == {-3, -1, 0, 2, 4}

WorldLocations == {Vec(x, y) : x \in Coords, y \in Coords}

BoxTransforms == {FTransformIdentity,
                  [Yaw |-> 270, Translation |-> Vec(1, 0)]}

BoxExtents == {Vec(-1, 2), Vec(0, 0), Vec(2, 0), Vec(1, 1), Vec(2, 2),
               Vec(3, 1)}

ChecksInputs == {1, Scale}

LaneTags == {"RoadTwoLanes_LaneRight", "Road90DegTurn_Lane0",
             "RoadTwoLanes_LaneLeft", "Road90DegTurn_Lane1",
             "Road90DegTurn_Lane2", "Road90DegTurn_Lane3"}

OtherTags == {"RoadXIntersection_Lane0"}

Tags == LaneTags \cup OtherTags

PlacementTransforms == {[Yaw |-> 90, Translation |-> Vec(2, 0)]}

\* ---------------------------------------------------------------- maths
Cos(yaw) == CASE yaw % 360 = 0 -> 1
              [] yaw % 360 = 90 -> 0
              [] yaw % 360 = 180 -> -1
              [] yaw % 360 = 270 -> 0

Sin(yaw) == CASE yaw % 360 = 0 -> 0
              [] yaw % 360 = 90 -> 1
              [] yaw % 360 = 180 -> 0
              [] yaw % 360 = 270 -> -1

GetForwardVector(yaw) == Dir(Cos(yaw), Sin(yaw), 0)

TransformPosition(T, V) ==
  Vec(V.X * Cos(T.Yaw) - V.Y * Sin(T.Yaw) + T.Translation.X,
      V.X * Sin(T.Yaw) + V.Y * Cos(T.Yaw) + T.Translation.Y)

DotProduct(a, b) == a.X * b.X + a.Y * b.Y + a.Z * b.Z

\* Value is fixed-point, the result a plain integer.
FloorToInt(Value) == Value \div Scale

Clamp(X, Min, Max) == IF X < Min THEN Min ELSE IF X < Max THEN X ELSE Max

ClampFloatToUIntNoClamp(Value, Min, Max) == FloorToInt(Value)

ClampFloatToUInt(Value, Min, Max) == Clamp(FloorToInt(Value), Min, Max)

\* ---------------------------------------------------------------- cells
\* RoadMap.h is not part of the sources: the default pixel, AppendEmptyPixel,
\* IsValid and the pixel-index accessor follow the documented behaviour.  The
\* Direction of a default pixel is never read while bHasDirection is false.
NoDirection == Dir(0, 0, 0)

FRoadMapPixelData == [bIsOffRoad |-> TRUE, bHasDirection |-> FALSE,
                      Direction |-> NoDirection]

\* What a read outside RoadMap yields.
OutOfRange == [bIsOffRoad |-> FALSE, bHasDirection |-> FALSE,
               Direction |-> Dir(2, 2, 2)]

AppendEmptyPixel(self) ==
  [self EXCEPT !.RoadMap = Append(self.RoadMap, FRoadMapPixelData)]

\* ---------------------------------------------------------------- grid
URoadMapWide ==
  AppendEmptyPixel([Width |-> 2, Height |-> 1, PixelsPerCentimeter |-> 1,
                    WorldToMap |-> FTransformIdentity, MapOffset |-> Vec(0, 0),
                    RoadMap |-> <<>>])

\* WorldToMap is a default FTransform (identity); MapOffset is left at the
\* zero the object's storage is created with.
URoadMap ==
  AppendEmptyPixel([Width |-> 1, Height |-> 1, PixelsPerCentimeter |-> 1,
                    WorldToMap |-> FTransformIdentity, MapOffset |-> Vec(0, 0),
                    RoadMap |-> <<>>])

IsValid(self) ==
  /\ Len(self.RoadMap) > 0
  /\ self.Width > 0
  /\ self.Height > 0
  /\ Len(self.RoadMap) = self.Width * self.Height

GetDataAtXY(self, PixelX, PixelY) ==
  LET Index == PixelY * self.Width + PixelX
  IN  [fatal |-> FALSE, X |-> PixelX, Y |-> PixelY, Index |-> Index,
       Data |-> IF Index + 1 \in DOMAIN self.RoadMap
                  THEN self.RoadMap[Index + 1] ELSE OutOfRange]

GetDataAtUnchecked(self, WorldLocation) ==
  LET T == TransformPosition(self.WorldToMap, WorldLocation)
      X == ClampFloatToUInt(self.PixelsPerCentimeter * (T.X - self.MapOffset.X),
                            0, self.Width - 1)
      Y == ClampFloatToUInt(self.PixelsPerCentimeter * (T.Y - self.MapOffset.Y),
                            0, self.Height - 1)
  IN  GetDataAtXY(self, X, Y)

GetDataAt(self, WorldLocation) ==
  IF ~IsValid(self)
    THEN [fatal |-> TRUE, X |-> -1, Y |-> -1, Index |-> -1, Data |-> OutOfRange]
    ELSE LET T == TransformPosition(self.WorldToMap, WorldLocation)
             X == ClampFloatToUInt(
                    self.PixelsPerCentimeter * (T.X - self.MapOffset.X),
                    0, self.Width - 1)
             Y == ClampFloatToUInt(
                    self.PixelsPerCentimeter * (T.Y - self.MapOffset.Y),
                    0, self.Height - 1)
         IN  GetDataAtXY(self, X, Y)

\* ---------------------------------------------------------------- Intersect
Ratio(n, d) == [Num |-> n, Den |-> d]

LoopCondInclusive(V, Extent) == V <= Extent

LoopCond(V, Extent) == V < Extent

ClassifyBoth(Data, DirectionOfMovement, acc) ==
  LET a == IF Data.bIsOffRoad \/ Data.bHasDirection
             THEN [acc EXCEPT !.OffRoad = @ + 1] ELSE acc
  IN  IF Data.bHasDirection /\ 0 < DotProduct(Data.Direction, DirectionOfMovement)
        THEN [a EXCEPT !.OppositeLane = @ + 1] ELSE a

Classify(Data, DirectionOfMovement, acc) ==
  IF Data.bIsOffRoad
    THEN [acc EXCEPT !.OffRoad = @ + 1]
    ELSE IF Data.bHasDirection
            /\ 0 < DotProduct(Data.Direction, DirectionOfMovement)
           THEN [acc EXCEPT !.OppositeLane = @ + 1]
           ELSE acc

Sample(self, BoxTransform, X, Y, acc) ==
  LET counted == [acc EXCEPT !.CheckCount = @ + 1]
      Location == TransformPosition(BoxTransform, Vec(X, Y))
      Query == GetDataAt(self, Location)
  IN  IF Query.fatal
        THEN [counted EXCEPT !.fatal = TRUE]
        ELSE Classify(Query.Data, GetForwardVector(BoxTransform.Yaw), counted)

RECURSIVE LoopY(_, _, _, _, _, _, _)
LoopY(self, BoxTransform, BoxExtent, Step, X, Y, acc) ==
  IF acc.fatal \/ ~LoopCond(Y, BoxExtent.Y)
    THEN acc
    ELSE LoopY(self, BoxTransform, BoxExtent, Step, X, Y + Step,
               Sample(self, BoxTransform, X, Y, acc))

RECURSIVE LoopX(_, _, _, _, _, _)
LoopX(self, BoxTransform, BoxExtent, Step, X, acc) ==
  IF acc.fatal \/ ~LoopCond(X, BoxExtent.X)
    THEN acc
    ELSE LoopX(self, BoxTransform, BoxExtent, Step, X + Step,
               LoopY(self, BoxTransform, BoxExtent, Step, X, -BoxExtent.Y, acc))

\* ChecksPerCentimeter is positive and divides Scale, so Step is exact.
Intersect(self, BoxTransform, BoxExtent, ChecksPerCentimeter) ==
  LET Step == Scale \div ChecksPerCentimeter
      acc == LoopX(self, BoxTransform, BoxExtent, Step, -BoxExtent.X,
                   [CheckCount |-> 0, OffRoad |-> 0, OppositeLane |-> 0,
                    fatal |-> FALSE])
  IN  IF acc.fatal
        THEN [fatal |-> TRUE, CheckCount |-> acc.CheckCount, log |-> "none",
              Result |-> [OffRoad |-> Ratio(0, 1), OppositeLane |-> Ratio(0, 1)]]
        ELSE IF acc.CheckCount > 0
          THEN [fatal |-> FALSE, CheckCount |-> acc.CheckCount, log |-> "none",
                Result |-> [OffRoad |-> Ratio(acc.OffRoad, acc.CheckCount),
                            OppositeLane |->
                              Ratio(acc.OppositeLane, acc.CheckCount)]]
          ELSE [fatal |-> FALSE, CheckCount |-> 0, log |-> "Warning",
                Result |-> [OffRoad |-> Ratio(acc.OffRoad, 1),
                            OppositeLane |-> Ratio(acc.OppositeLane, 1)]]

\* ---------------------------------------------------------------- export
FColor(r, g, b, a) == [R |-> r, G |-> g, B |-> b, A |-> a]

ToColor(X) == (255 * (X + 1)) \div 2

Encode(Data) ==
  IF Data.bIsOffRoad
    THEN FColor(0, 0, 0, 255)
    ELSE IF ~Data.bHasDirection
           THEN FColor(255, 255, 255, 255)
           ELSE FColor(ToColor(Data.Direction.X), ToColor(Data.Direction.Y),
                       ToColor(Data.Direction.Z), 255)

BitMapOf(cells) == [i \in DOMAIN cells |-> Encode(cells[i])]

SaveAsPNGUnchecked(self) ==
  [ret |-> TRUE, log |-> "Log",
   SaveImage |-> <<[BitMap |-> BitMapOf(self.RoadMap),
                    DestSize |-> Vec(self.Width, self.Height)]>>]

SaveAsPNG(self) ==
  IF ~IsValid(self)
    THEN [ret |-> FALSE, log |-> "Error", SaveImage |-> <<>>]
    ELSE [ret |-> TRUE, log |-> "Log",
          SaveImage |-> <<[BitMap |-> BitMapOf(self.RoadMap),
                           DestSize |-> Vec(self.Width, self.Height)]>>]

\* ---------------------------------------------------------------- population
YawOffset(Tag) ==
  CASE Tag \in {"RoadTwoLanes_LaneRight", "Road90DegTurn_Lane0"} -> 0
    [] Tag \in {"RoadTwoLanes_LaneLeft", "Road90DegTurn_Lane1"} -> 180
    [] Tag = "Road90DegTurn_Lane2" -> 90
    [] Tag = "Road90DegTurn_Lane3" -> 270
    [] OTHER -> 0

HasDirection(Tag) ==
  Tag \in {"RoadTwoLanes_LaneRight", "Road90DegTurn_Lane0",
           "RoadTwoLanes_LaneLeft", "Road90DegTurn_Lane1",
           "Road90DegTurn_Lane2", "Road90DegTurn_Lane3"}

Negate(V) == Dir(-V.X, -V.Y, -V.Z)

PixelFor(Data, Tag, Transform, bInvertDirection) ==
  LET Yaw == Transform.Yaw + YawOffset(Tag)
      Forward == GetForwardVector(Yaw)
      Switched == [Data EXCEPT !.bIsOffRoad = FALSE,
                               !.bHasDirection = IF HasDirection(Tag)
                                                   THEN TRUE ELSE @]
  IN  IF Switched.bHasDirection
        THEN [Switched EXCEPT !.Direction = IF bInvertDirection
                                              THEN Negate(Forward) ELSE Forward]
        ELSE Switched

AppendPixelKeepOffRoad(self, Tag, Transform, bInvertDirection) ==
  LET grown == AppendEmptyPixel(self)
      Last == Len(grown.RoadMap)
      Data == PixelFor(grown.RoadMap[Last], Tag, Transform, bInvertDirection)
  IN  [grown EXCEPT !.RoadMap[Last] = [Data EXCEPT !.bIsOffRoad = TRUE]]

AppendPixelAlwaysDirected(self, Tag, Transform, bInvertDirection) ==
  LET grown == AppendEmptyPixel(self)
      Last == Len(grown.RoadMap)
  IN  [grown EXCEPT !.RoadMap[Last] =
         PixelFor(@, "RoadTwoLanes_LaneRight", Transform, bInvertDirection)]

AppendPixel(self, Tag, Transform, bInvertDirection) ==
  LET grown == AppendEmptyPixel(self)
      Last == Len(grown.RoadMap)
  IN  [grown EXCEPT !.RoadMap[Last] =
         PixelFor(@, Tag, Transform, bInvertDirection)]

SetResizing(self, inWidth, inHeight, inPixelsPerCentimeter, inWorldToMap, inMapOffset) ==
  [self EXCEPT !.Width = inWidth, !.Height = inHeight,
               !.PixelsPerCentimeter = inPixelsPerCentimeter,
               !.WorldToMap = inWorldToMap, !.MapOffset = inMapOffset,
               !.RoadMap = [i \in 1..(inWidth * inHeight) |-> FRoadMapPixelData]]

Set(self, inWidth, inHeight, inPixelsPerCentimeter, inWorldToMap, inMapOffset) ==
  [self EXCEPT !.Width = inWidth, !.Height = inHeight,
               !.PixelsPerCentimeter = inPixelsPerCentimeter,
               !.WorldToMap = inWorldToMap, !.MapOffset = inMapOffset]

\* ---------------------------------------------------------------- state
\* pc is the position of the single caller: "idle" between calls, "returned"
\* when a call has come back and its results are being read, "aborted" when
\* a check() has failed.  protocol and appended are history variables.
\* tag is the Tag argument of the last AppendPixel call.
VARIABLES Width, Height, PixelsPerCentimeter, WorldToMap, MapOffset, RoadMap,
          pc, op, tag, log, point, overlap, saved, protocol, appended

grid == <<Width, Height, PixelsPerCentimeter, WorldToMap, MapOffset, RoadMap>>

vars == <<Width, Height, PixelsPerCentimeter, WorldToMap, MapOffset, RoadMap,
          pc, op, tag, log, point, overlap, saved, protocol, appended>>

This == [Width |-> Width, Height |-> Height,
         PixelsPerCentimeter |-> PixelsPerCentimeter,
         WorldToMap |-> WorldToMap, MapOffset |-> MapOffset,
         RoadMap |-> RoadMap]

Becomes(self) ==
  /\ Width' = self.Width
  /\ Height' = self.Height
  /\ PixelsPerCentimeter' = self.PixelsPerCentimeter
  /\ WorldToMap' = self.WorldToMap
  /\ MapOffset' = self.MapOffset
  /\ RoadMap' = self.RoadMap

NoPoint == [X |-> -1, Y |-> -1, Index |-> -1, Data |-> OutOfRange]

NoOverlap == [BoxExtent |-> Vec(0, 0), CheckCount |-> -1,
              Result |-> [OffRoad |-> Ratio(0, 1), OppositeLane |-> Ratio(0, 1)]]

NoSave == [ret |-> FALSE, SaveImage |-> <<>>]

Returns(name, isFatal, logged, p, o, s) ==
  /\ pc' = IF isFatal THEN "aborted" ELSE "returned"
  /\ op' = name
  /\ log' = logged
  /\ point' = p
  /\ overlap' = o
  /\ saved' = s

Init ==
  /\ Width = URoadMap.Width
  /\ Height = URoadMap.Height
  /\ PixelsPerCentimeter = URoadMap.PixelsPerCentimeter
  /\ WorldToMap = URoadMap.WorldToMap
  /\ MapOffset = URoadMap.MapOffset
  /\ RoadMap = URoadMap.RoadMap
  /\ pc = "returned"
  /\ op = "URoadMap"
  /\ tag = "none"
  /\ log = "none"
  /\ point = NoPoint
  /\ overlap = NoOverlap
  /\ saved = NoSave
  /\ protocol = "constructed"
  /\ appended = <<>>

Resume ==
  /\ pc = "returned"
  /\ pc' = "idle"
  /\ op' = "none"
  /\ tag' = "none"
  /\ log' = "none"
  /\ point' = NoPoint
  /\ overlap' = NoOverlap
  /\ saved' = NoSave
  /\ UNCHANGED <<grid, protocol, appended>>

CallSet(inWidth, inHeight, inPixelsPerCentimeter, inWorldToMap, inMapOffset) ==
  /\ pc = "idle"
  /\ Becomes(Set(This, inWidth, inHeight, inPixelsPerCentimeter, inWorldToMap,
                 inMapOffset))
  /\ Returns("Set", FALSE, "none", NoPoint, NoOverlap, NoSave)
  /\ tag' = "none"
  /\ protocol' = IF protocol = "constructed" THEN "configured" ELSE "deviated"
  /\ UNCHANGED appended

CallAppendEmptyPixel ==
  /\ pc = "idle"
  /\ Len(RoadMap) < MaxCells
  /\ Becomes(AppendEmptyPixel(This))
  /\ Returns("AppendEmptyPixel", FALSE, "none", NoPoint, NoOverlap, NoSave)
  /\ tag' = "none"
  /\ protocol' = IF protocol = "configured" THEN "configured" ELSE "deviated"
  /\ appended' = Append(appended, FRoadMapPixelData)

CallAppendPixel(Tag, Transform, bInvertDirection) ==
  /\ pc = "idle"
  /\ Len(RoadMap) < MaxCells
  /\ Becomes(AppendPixel(This, Tag, Transform, bInvertDirection))
  /\ Returns("AppendPixel", FALSE, "none", NoPoint, NoOverlap, NoSave)
  /\ tag' = Tag
  /\ protocol' = IF protocol = "configured" THEN "configured" ELSE "deviated"
  /\ appended' = Append(appended,
                        PixelFor(FRoadMapPixelData, Tag, Transform,
                                 bInvertDirection))

CallGetDataAt(WorldLocation) ==
  /\ pc = "idle"
  /\ LET r == GetDataAt(This, WorldLocation)
     IN  Returns("GetDataAt", r.fatal, "none",
                 [X |-> r.X, Y |-> r.Y, Index |-> r.Index, Data |-> r.Data],
                 NoOverlap, NoSave)
  /\ tag' = "none"
  /\ UNCHANGED <<grid, protocol, appended>>

CallIntersect(BoxTransform, BoxExtent, ChecksPerCentimeter) ==
  /\ pc = "idle"
  /\ LET r == Intersect(This, BoxTransform, BoxExtent, ChecksPerCentimeter)
     IN  Returns("Intersect", r.fatal, r.log, NoPoint,
                 [BoxExtent |-> BoxExtent, CheckCount |-> r.CheckCount,
                  Result |-> r.Result], NoSave)
  /\ tag' = "none"
  /\ UNCHANGED <<grid, protocol, appended>>

CallSaveAsPNG ==
  /\ pc = "idle"
  /\ LET r == SaveAsPNG(This)
     IN  Returns("SaveAsPNG", FALSE, r.log, NoPoint, NoOverlap,
                 [ret |-> r.ret, SaveImage |-> r.SaveImage])
  /\ tag' = "none"
  /\ UNCHANGED <<grid, protocol, appended>>

Next ==
  \/ Resume
  \/ \E w \in Dims, h \in Dims, c \in Placements :
       CallSet(w, h, c.PixelsPerCentimeter, c.WorldToMap, c.MapOffset)
  \/ CallAppendEmptyPixel
  \/ \E tg \in Tags, t \in PlacementTransforms, inv \in BOOLEAN :
       CallAppendPixel(tg, t, inv)
  \/ \E loc \in WorldLocations : CallGetDataAt(loc)
  \/ \E box \in BoxTransforms, ext \in BoxExtents, c \in ChecksInputs :
       CallIntersect(box, ext, c)
  \/ CallSaveAsPNG

Spec == Init /\ [][Next]_vars

\* ---------------------------------------------------------------- claims
Cells == DOMAIN RoadMap

LastPixel == RoadMap[Len(RoadMap)]

Fresh == protocol = "constructed"

AtMostOne(r) == r.Num >= 0 /\ r.Den > 0 /\ r.Num <= r.Den

\* C1 (as stated): in every reachable state the number of stored cells
\* equals Width * Height.
C1_CellCountIsWidthTimesHeight == Len(RoadMap) = Width * Height

\* C1 (amended): the number of stored cells is one (the constructor's pixel)
\* plus the number of append calls made so far, whatever Set was given; it
\* equals Width * Height in the freshly constructed grid.
C1_CellCountTracksAppends ==
  /\ Len(RoadMap) = 1 + Len(appended)
  /\ Fresh => Len(RoadMap) = Width * Height

C1_Witness ==
  /\ op = "Set"
  /\ Len(appended) = 2
  /\ Width * Height = 4
  /\ Len(RoadMap) = 3

\* C2: a freshly constructed grid is 1 x 1 at one pixel per centimetre with a
\* single off-road, directionless pixel; it is valid and GetDataAt returns
\* that pixel for every world location.
C2_FreshGridIsValidAndOffRoad ==
  Fresh =>
    /\ Width = 1
    /\ Height = 1
    /\ PixelsPerCentimeter = 1
    /\ Len(RoadMap) = 1
    /\ RoadMap[1].bIsOffRoad
    /\ ~RoadMap[1].bHasDirection
    /\ IsValid(This)
    /\ op = "GetDataAt" =>
         /\ pc = "returned"
         /\ point.Index = 0
         /\ point.Data = RoadMap[1]
         /\ point.Data.bIsOffRoad

C2_Witness ==
  /\ Fresh
  /\ op = "GetDataAt"
  /\ pc = "returned"
  /\ point.Data.bIsOffRoad

\* C3: on a valid grid GetDataAt reads pixel (X, Y) with 0 <= X <= Width - 1
\* and 0 <= Y <= Height - 1, so the index Y * Width + X is inside RoadMap and
\* the query returns normally.
C3_QueryIndexInRange ==
  (op = "GetDataAt" /\ IsValid(This)) =>
    /\ pc = "returned"
    /\ point.X \in 0..(Width - 1)
    /\ point.Y \in 0..(Height - 1)
    /\ point.Index = point.Y * Width + point.X
    /\ point.Index + 1 \in Cells
    /\ point.Data = RoadMap[point.Index + 1]

C3_Witness ==
  /\ op = "GetDataAt"
  /\ pc = "returned"
  /\ Width = 2
  /\ Height = 2
  /\ point.X = 1
  /\ point.Y = 1
  /\ point.Index = 3
  /\ ~point.Data.bIsOffRoad

\* C4: on a valid grid every sample of Intersect is counted in at most one
\* of the two counters, so each fraction lies in [0, 1] and their sum is at
\* most 1.
C4_FractionsBounded ==
  (op = "Intersect" /\ pc = "returned" /\ IsValid(This)) =>
    LET off == overlap.Result.OffRoad
        opp == overlap.Result.OppositeLane
    IN  /\ AtMostOne(off)
        /\ AtMostOne(opp)
        /\ off.Num * opp.Den + opp.Num * off.Den <= off.Den * opp.Den
        /\ overlap.CheckCount > 0 =>
             off.Num + opp.Num <= overlap.CheckCount

C4_Witness ==
  /\ op = "Intersect"
  /\ pc = "returned"
  /\ IsValid(This)
  /\ overlap.CheckCount > 1
  /\ overlap.Result.OffRoad.Num > 0
  /\ overlap.Result.OppositeLane.Num > 0
  /\ overlap.Result.OffRoad.Num + overlap.Result.OppositeLane.Num
       < overlap.CheckCount

\* C5: GetDataAt on an invalid grid fails at check(IsValid()) and reads no
\* pixel.
C5_InvalidQueryIsFatal ==
  (op = "GetDataAt" /\ ~IsValid(This)) =>
    /\ pc = "aborted"
    /\ point = NoPoint

C5_Witness ==
  /\ op = "GetDataAt"
  /\ pc = "aborted"
  /\ Len(RoadMap) = 3
  /\ Width = 2
  /\ Height = 2

\* C6: SaveAsPNG never aborts and never changes the grid; on an invalid grid
\* it returns false without calling SaveImage, on a valid grid it calls
\* SaveImage once with Width * Height encoded pixels in RoadMap order and
\* returns true.
C6_SaveAsPNG ==
  [][(pc = "idle" /\ op' = "SaveAsPNG") =>
       /\ pc' = "returned"
       /\ UNCHANGED grid
       /\ IF IsValid(This)
            THEN /\ saved'.ret
                 /\ Len(saved'.SaveImage) = 1
                 /\ Len(saved'.SaveImage[1].BitMap) = Width * Height
                 /\ saved'.SaveImage[1].DestSize = Vec(Width, Height)
                 /\ \A i \in Cells :
                      saved'.SaveImage[1].BitMap[i] = Encode(RoadMap[i])
            ELSE /\ ~saved'.ret
                 /\ saved'.SaveImage = <<>>
                 /\ log' = "Error"]_vars

C6_Witness ==
  /\ op = "SaveAsPNG"
  /\ ~saved.ret
  /\ saved.SaveImage = <<>>
  /\ Len(RoadMap) = 2
  /\ Width * Height = 4

\* C7: an Intersect call whose box extent is zero or negative on either axis
\* takes no sample, returns {0, 0} with a warning and never aborts, whether
\* or not the grid is valid.
C7_ZeroSamplesIsNeutral ==
  (op = "Intersect"
     /\ (overlap.BoxExtent.X <= 0 \/ overlap.BoxExtent.Y <= 0)) =>
    /\ pc = "returned"
    /\ overlap.CheckCount = 0
    /\ overlap.Result.OffRoad.Num = 0
    /\ overlap.Result.OppositeLane.Num = 0
    /\ log = "Warning"

C7_Witness ==
  /\ op = "Intersect"
  /\ pc = "returned"
  /\ overlap.BoxExtent = Vec(2, 0)
  /\ overlap.CheckCount = 0
  /\ ~IsValid(This)

\* C8: no stored pixel is off-road and has a direction.
C8_OffRoadHasNoDirection ==
  \A i \in Cells : ~(RoadMap[i].bIsOffRoad /\ RoadMap[i].bHasDirection)

C8_Witness ==
  /\ Len(appended) >= 2
  /\ \E i \in DOMAIN appended : appended[i].bIsOffRoad
  /\ \E i \in Cells : RoadMap[i].bHasDirection

\* C9: an AppendPixel call adds exactly one pixel at the end of RoadMap,
\* on-road, leaves the dimensions, resolution, transform, offset and all
\* earlier pixels as they were, and gives the new pixel a direction exactly
\* for the six lane tags.
C9_AppendPixelFrame ==
  [][(pc = "idle" /\ op' = "AppendPixel") =>
       /\ Len(RoadMap') = Len(RoadMap) + 1
       /\ \A i \in Cells : RoadMap'[i] = RoadMap[i]
       /\ ~RoadMap'[Len(RoadMap')].bIsOffRoad
       /\ RoadMap'[Len(RoadMap')].bHasDirection <=> (tag' \in LaneTags)
       /\ UNCHANGED <<Width, Height, PixelsPerCentimeter, WorldToMap,
                      MapOffset>>]_vars

C9_Witness ==
  /\ op = "AppendPixel"
  /\ tag \notin LaneTags
  /\ Len(RoadMap) = 3
  /\ ~LastPixel.bIsOffRoad
  /\ ~LastPixel.bHasDirection
  /\ RoadMap[2].bHasDirection

\* C10: after construction, one Set(w, h, ...) with positive w and h and then
\* exactly w * h append calls, the grid is valid, holds the appended pixels
\* at indices 0 .. w * h - 1 in append order, and GetDataAt returns the pixel
\* appended at the row-major position instead of failing its check.
C10_PopulationLeavesGridValid ==
  (protocol = "configured" /\ Width > 0 /\ Height > 0
     /\ Len(appended) = Width * Height) =>
    /\ IsValid(This)
    /\ Len(RoadMap) = Width * Height
    /\ \A i \in 1..(Width * Height) : RoadMap[i] = appended[i]
    /\ op = "GetDataAt" =>
         /\ pc = "returned"
         /\ point.Data = appended[point.Index + 1]

====
